---- MODULE Spec2Model ----
(***************************************************************************)
(* SklearnModel (src/model/sklearn.py): the prediction and explanation     *)
(* pipeline of a served scikit-learn style estimator.  One action per      *)
(* public operation; the estimator and the SHAP tree explainer are         *)
(* external capabilities whose outputs are recorded in the variable raw.   *)
(* The base class (model/base.py: _check, _validate, _feature_names, ...)  *)
(* is modelled from the specification.                                     *)
(***************************************************************************)
EXTENDS Integers, Sequences, FiniteSets, TLC

VARIABLES
    ready,      \* BaseModel readiness flag
    _model,     \* self._model: the fitted estimator (NoModel before load)
    metadata,   \* self.metadata: feature schema and task kind
    nest,       \* how the loaded estimator was composed: its layers and its plain predictor
    call,       \* the last operation called: its name, arguments and outcome
    reached,    \* the collaborators the last call reached
    raw         \* what the estimator / the attribution capability was given and returned

vars == <<ready, _model, metadata, nest, call, reached, raw>>

-----------------------------------------------------------------------------
(* Bounds of the model *)

MaxDepth == 2
MaxRecords == 2
MaxBackground == 1
MaxClasses == 3

-----------------------------------------------------------------------------
(* Values *)

None == [none |-> TRUE]
NoModel == [kind |-> "NoModel"]
NoMetadata == [features |-> <<>>, task |-> "unknown"]

Range(s) == {s[i] : i \in 1..Len(s)}

Last(s) == s[Len(s)]

Reverse(s) == [i \in 1..Len(s) |-> s[Len(s) + 1 - i]]

(* The feature schema every served artifact declares, in schema order. *)
Schema == << [name |-> "age", type |-> "numeric"],
             [name |-> "color", type |-> "categorical"] >>

Num(v) == [type |-> "numeric", val |-> v]
Cat(v) == [type |-> "categorical", val |-> v]

(* Request records: two valid ones, one with a feature missing, one with a  *)
(* non-numeric value for a numeric feature.                                 *)
RecA == [age |-> Num(1), color |-> Cat(2)]
RecB == [color |-> Cat(1), age |-> Num(3)]
RecMissing == [age |-> Num(1)]
RecMistyped == [age |-> Cat(1), color |-> Cat(1)]

Records == {RecA, RecB, RecMissing, RecMistyped}

SeqsUpTo(S, n) == UNION {[1..k -> S] : k \in 1..n}

Dict(r) == [kind |-> "dict", value |-> r]
List(rs) == [kind |-> "list", value |-> rs]

(* A request: one record, or an ordered batch of records. *)
Requests == {Dict(r) : r \in Records} \cup {List(rs) : rs \in SeqsUpTo(Records, MaxRecords)}

(* The background of an explanation: absent, or a batch of records. *)
Backgrounds == {None} \cup {List(rs) : rs \in SeqsUpTo(Records, MaxBackground)}

-----------------------------------------------------------------------------
(* Estimators *)

(* The family with a linear model taken for a tree model. *)
_explainable_models_wider ==
    { "DecisionTreeClassifier", "DecisionTreeRegressor",
      "RandomForestClassifier", "RandomForestRegressor",
      "XGBClassifier", "XGBRegressor", "Booster",
      "CatBoostClassifier", "CatBoostRegressor",
      "LGBMClassifier", "LGBMRegressor", "LogisticRegression" }

_explainable_models ==
    { "DecisionTreeClassifier", "DecisionTreeRegressor",
      "RandomForestClassifier", "RandomForestRegressor",
      "XGBClassifier", "XGBRegressor", "Booster",
      "CatBoostClassifier", "CatBoostRegressor",
      "LGBMClassifier", "LGBMRegressor" }

ClassifierKinds ==
    { "DecisionTreeClassifier", "RandomForestClassifier", "XGBClassifier",
      "CatBoostClassifier", "LGBMClassifier", "LogisticRegression" }

RegressorKinds ==
    { "DecisionTreeRegressor", "RandomForestRegressor", "XGBRegressor", "Booster",
      "CatBoostRegressor", "LGBMRegressor", "LinearRegression" }

(* classes_ of a fitted classifier: k sorted integer labels. *)
ClassLists == {[i \in 1..k |-> i - 1] : k \in 1..MaxClasses}

PlainClassifiers ==
    {[kind |-> k, classes_ |-> c] : k \in ClassifierKinds, c \in ClassLists}

PlainRegressors == {[kind |-> k] : k \in RegressorKinds}

(* A plain estimator may also offer a transform capability. *)
WithTransform(e) == [f \in DOMAIN e \cup {"transform"} |->
                        IF f = "transform" THEN "shift" ELSE e[f]]

PlainPredictors == PlainClassifiers \cup PlainRegressors

Scaler == [kind |-> "StandardScaler", transform |-> "scale"]

LayerKinds == {"Pipeline", "CalibratedClassifierCV"}

(* One layer around an estimator: a two-step pipeline ending in it, or a    *)
(* calibration wrapper of it.                                               *)
Wrap(layer, inner) ==
    IF layer = "Pipeline"
    THEN [kind |-> "Pipeline", steps |-> << <<"scaler", Scaler>>, <<"model", inner>> >>]
    ELSE [kind |-> layer, base_estimator |-> inner]

RECURSIVE Build(_, _)
Build(layers, plain) ==
    IF layers = <<>> THEN plain
    ELSE Wrap(layers[1], Build(Tail(layers), plain))

Nestings == UNION {[1..k -> LayerKinds] : k \in 0..MaxDepth}

(* The estimators a loader can hand over; calibration wraps classifiers only. *)
Artifacts ==
    {[layers |-> ls, plain |-> p] : ls \in Nestings, p \in PlainPredictors}

Loadable(a) ==
    \/ a.plain \in PlainClassifiers
    \/ "CalibratedClassifierCV" \notin Range(a.layers)

-----------------------------------------------------------------------------
(* Estimator Unwrapper *)

HasAttr(obj, name) == name \in DOMAIN obj

type_name(model) == model.kind

(* 'CalibratedClassifier' in model_name: the type names that contain it. *)
CalibratedNames == {"CalibratedClassifierCV", "_CalibratedClassifier"}

(* The unwrapper descending into the first step of a pipeline. *)
RECURSIVE ExtractCallsFirstStep(_)
ExtractCallsFirstStep(model) ==
    LET model_name == type_name(model) IN
    IF model_name = "Pipeline"
    THEN <<model>> \o ExtractCallsFirstStep(model.steps[1][2])
    ELSE IF model_name \in CalibratedNames
    THEN <<model>> \o ExtractCallsFirstStep(model.base_estimator)
    ELSE <<model>>

(* The arguments of the successive calls of _extract_base_predictor, the    *)
(* first being model and the last the estimator it returns.                 *)
RECURSIVE ExtractCalls(_)
ExtractCalls(model) ==
    LET model_name == type_name(model) IN
    IF model_name = "Pipeline"
    THEN <<model>> \o ExtractCalls(model.steps[Len(model.steps)][2])
    ELSE IF model_name \in CalibratedNames
    THEN <<model>> \o ExtractCalls(model.base_estimator)
    ELSE <<model>>

_extract_base_predictor(model) == Last(ExtractCalls(model))

-----------------------------------------------------------------------------
(* Tables (pandas.DataFrame) and arrays *)

DataFrame(values, index, columns) ==
    [kind |-> "DataFrame", columns |-> columns, index |-> index, rows |-> values]

RangeIndex(n) == [i \in 1..n |-> i - 1]

(* df[colnames]: the columns named, in the order named. *)
SelectColumns(df, colnames) ==
    LET pos(c) == CHOOSE j \in 1..Len(df.columns) : df.columns[j] = c IN
    DataFrame([i \in 1..Len(df.rows) |-> [j \in 1..Len(colnames) |-> df.rows[i][pos(colnames[j])]]],
              df.index, colnames)

(* df.to_dict(orient='records'): one ordered mapping per row, a mapping     *)
(* being the sequence of its <<key, value>> items in insertion order.       *)
to_dict_records(df) ==
    [i \in 1..Len(df.rows) |-> [j \in 1..Len(df.columns) |-> <<df.columns[j], df.rows[i][j]>>]]

(* array * factor *)
Times(array, factor) ==
    [i \in 1..Len(array) |-> [j \in 1..Len(array[i]) |-> array[i][j] * factor]]

(* np.array(labels, str) *)
StrArray(labels) == [i \in 1..Len(labels) |-> ToString(labels[i])]

Keys(mapping) == [i \in 1..Len(mapping) |-> mapping[i][1]]

-----------------------------------------------------------------------------
(* Outcomes: what a call returned or raised, the collaborators it reached   *)
(* and what passed between it and the external capabilities.                *)

NoRaw == [estimator |-> None, shap |-> None]

Return(v, r, x) == [status |-> "ok", value |-> v, reached |-> r, raw |-> x]

Raise(e, r, x) == [status |-> e, value |-> None, reached |-> r, raw |-> x]

Ok(res) == res.status = "ok"

-----------------------------------------------------------------------------
(* Base class (model/base.py) *)

is_ready == ready

_is_classification == metadata.task = "classification"

_feature_names == [i \in 1..Len(metadata.features) |-> metadata.features[i].name]

_get_predictor_type == type_name(_extract_base_predictor(_model))

_is_explainable == _get_predictor_type \in _explainable_models

(* The decorator guarding an operation: readiness first, then the           *)
(* explainable family, then the task.  "ok" lets the call through.          *)
_check(explainable, task) ==
    IF ~is_ready THEN "NotReadyError"
    ELSE IF explainable /\ ~_is_explainable THEN "UnsupportedModelError"
    ELSE IF task # "any" /\ metadata.task # task THEN "UnsupportedTaskError"
    ELSE "ok"

RecordValid(r) ==
    /\ \A i \in 1..Len(metadata.features) : metadata.features[i].name \in DOMAIN r
    /\ \A k \in DOMAIN r : k \in Range(_feature_names)
    /\ \A i \in 1..Len(metadata.features) :
          r[metadata.features[i].name].type = metadata.features[i].type

(* validate(records) -> TabularData: one row per record, columns in schema  *)
(* order; a table that already has the schema's columns passes unchanged.   *)
_validate(input) ==
    IF input.kind = "DataFrame"
    THEN IF input.columns = _feature_names
         THEN Return(input, {"validate"}, NoRaw)
         ELSE Raise("ValidationError", {"validate"}, NoRaw)
    ELSE LET recs == IF input.kind = "dict" THEN <<input.value>> ELSE input.value IN
         IF \A i \in 1..Len(recs) : RecordValid(recs[i])
         THEN Return(DataFrame([i \in 1..Len(recs) |->
                                   [j \in 1..Len(_feature_names) |-> recs[i][_feature_names[j]].val]],
                               RangeIndex(Len(recs)), _feature_names),
                     {"validate"}, NoRaw)
         ELSE Raise("ValidationError", {"validate"}, NoRaw)

-----------------------------------------------------------------------------
(* The external capabilities: the fitted estimator and the tree explainer.  *)
(* Numbers stand for the floating-point values they return.                 *)

RECURSIVE RowSum(_)
RowSum(row) == IF row = <<>> THEN 0 ELSE row[1] + RowSum(Tail(row))

FittedClasses == nest.plain.classes_

EstimatorTransform(table) ==
    DataFrame([i \in 1..Len(table.rows) |-> [j \in 1..Len(table.rows[i]) |-> table.rows[i][j] + 1]],
              table.index, table.columns)

EstimatorPredict(table) ==
    [i \in 1..Len(table.rows) |->
        IF HasAttr(nest.plain, "classes_")
        THEN FittedClasses[(RowSum(table.rows[i]) % Len(FittedClasses)) + 1]
        ELSE RowSum(table.rows[i])]

(* Only a classifier offers probabilities. *)
EstimatorHasProba == HasAttr(nest.plain, "classes_")

(* One row per record, one column per class of the estimator. *)
EstimatorPredictProba(table) ==
    [i \in 1..Len(table.rows) |->
        [k \in 1..Len(FittedClasses) |-> ((RowSum(table.rows[i]) + k) % 3) + 1]]

ShapArray(rows, c) ==
    [i \in 1..Len(rows) |-> [j \in 1..Len(rows[i]) |-> rows[i][j] * j - 2 * c]]

(* explainer.shap_values(data): for a classifier one array per class, a     *)
(* single array, or an object that is neither; for a regressor one array.   *)
ShapValues(shape, rows) ==
    IF shape = "list"
    THEN [kind |-> "list", arrays |-> [c \in 1..Len(FittedClasses) |-> ShapArray(rows, c)]]
    ELSE IF shape = "ndarray"
    THEN [kind |-> "ndarray", array |-> ShapArray(rows, 1)]
    ELSE [kind |-> "other"]

Shapes ==
    IF ready /\ HasAttr(nest.plain, "classes_") THEN {"list", "ndarray", "other"}
    ELSE {"ndarray"}

-----------------------------------------------------------------------------
(* The guards the decorators of the operations state *)

_get_predictor_check == _check(FALSE, "any")

_get_class_names_check == _check(FALSE, "classification")

preprocess_check == _check(FALSE, "any")

(* predict without its decorator. *)
predict_check_unguarded == "ok"

predict_check == _check(FALSE, "any")

(* predict_proba decorated without the task. *)
predict_proba_check_any_task == _check(FALSE, "any")

predict_proba_check == _check(FALSE, "classification")

explain_check == _check(TRUE, "any")

-----------------------------------------------------------------------------
(* Private operations *)

_get_predictor ==
    IF _get_predictor_check # "ok" THEN Raise(_get_predictor_check, {}, NoRaw)
    ELSE Return(_extract_base_predictor(_model), {}, NoRaw)

(* The class names taken in the reverse of the predictor's order. *)
_get_class_names_reversed ==
    IF _check(FALSE, "classification") # "ok"
    THEN Raise(_check(FALSE, "classification"), {}, NoRaw)
    ELSE IF ~Ok(_get_predictor) THEN _get_predictor
    ELSE IF ~HasAttr(_get_predictor.value, "classes_") THEN Raise("AttributeError", {}, NoRaw)
    ELSE Return(Reverse(StrArray(_get_predictor.value.classes_)), {}, NoRaw)

_get_class_names ==
    IF _get_class_names_check # "ok" THEN Raise(_get_class_names_check, {}, NoRaw)
    ELSE IF ~Ok(_get_predictor) THEN _get_predictor
    ELSE IF ~HasAttr(_get_predictor.value, "classes_") THEN Raise("AttributeError", {}, NoRaw)
    ELSE Return(StrArray(_get_predictor.value.classes_), {}, NoRaw)

_is_binary_classification ==
    _is_classification /\ Len(_get_class_names.value) = 2

-----------------------------------------------------------------------------
(* Inference operations *)

preprocess(features) ==
    IF preprocess_check # "ok" THEN Raise(preprocess_check, {}, NoRaw)
    ELSE LET input == _validate(features) IN
         IF ~Ok(input) THEN input
         ELSE IF HasAttr(_model, "transform")
              THEN Return(EstimatorTransform(input.value), input.reached \cup {"estimator"}, NoRaw)
              ELSE input

predict(features) ==
    IF predict_check # "ok" THEN Raise(predict_check, {}, NoRaw)
    ELSE LET input == _validate(features) IN
         IF ~Ok(input) THEN input
         ELSE LET result == EstimatorPredict(input.value) IN
              Return(result, input.reached \cup {"estimator"},
                     [estimator |-> result, shap |-> None])

predict_proba(features) ==
    IF predict_proba_check # "ok" THEN Raise(predict_proba_check, {}, NoRaw)
    ELSE LET input == _validate(features) IN
         IF ~Ok(input) THEN input
         ELSE IF ~EstimatorHasProba THEN Raise("AttributeError", input.reached, NoRaw)
         ELSE LET prediction == EstimatorPredictProba(input.value)
                  reach == input.reached \cup {"estimator"}
                  out == [estimator |-> prediction, shap |-> None]
                  names == _get_class_names
              IN  IF ~Ok(names) THEN Raise(names.status, reach, out)
                  ELSE Return(to_dict_records(
                                  DataFrame(prediction, RangeIndex(Len(prediction)), names.value)),
                              reach, out)

-----------------------------------------------------------------------------
(* Attribution engine *)

(* The parameters with the raw output space kept when a background is given. *)
explain_params_margin(samples, data) ==
    IF samples = None
    THEN [feature_dependence |-> "tree_path_dependent", model_output |-> "margin"]
    ELSE [data |-> data, feature_dependence |-> "independent", model_output |-> "margin"]

(* The parameters of the explainer, chosen by the presence of samples; data *)
(* is the preprocessed background.                                          *)
explain_params(samples, data) ==
    IF samples = None
    THEN [feature_dependence |-> "tree_path_dependent", model_output |-> "margin"]
    ELSE [data |-> data, feature_dependence |-> "independent", model_output |-> "probability"]

(* self.preprocess(self._validate(samples)) *)
explain_background(samples) ==
    LET validated == _validate(samples) IN
    IF ~Ok(validated) THEN validated ELSE preprocess(validated.value)

use_pandas == _get_predictor_type \in {"LGBMClassifier", "LGBMRegressor"}

(* A single array taken whatever the number of classes. *)
process_shap_values_any_array(shap_values) ==
    IF shap_values.kind = "list" THEN "False"
    ELSE IF shap_values.kind = "ndarray" THEN "True"
    ELSE "ValueError"

(* Which raw outputs of a classifier's explainer are taken, and how: FALSE  *)
(* one array per class, TRUE one array to be negated for the first class.   *)
process_shap_values(shap_values) ==
    IF shap_values.kind = "list" THEN "False"
    ELSE IF shap_values.kind = "ndarray" /\ _is_binary_classification THEN "True"
    ELSE "ValueError"

(* The single array given to both classes as it is. *)
class_values_not_negated(shap_values, process, i) ==
    IF process = "True"
    THEN Times(shap_values.array, 1)
    ELSE shap_values.arrays[i]

(* The values of the i-th class (i counted from 1). *)
class_values(shap_values, process, i) ==
    IF process = "True"
    THEN Times(shap_values.array, IF i = 1 THEN -1 ELSE 1)
    ELSE shap_values.arrays[i]

classification_result(shap_values, process, class_names, index, colnames) ==
    [i \in 1..Len(class_names) |->
        <<class_names[i],
          to_dict_records(DataFrame(class_values(shap_values, process, i), index, colnames))>>]

(* The columns named in the reverse of the schema's order. *)
regression_result_reversed(shap_values, index, colnames) ==
    to_dict_records(DataFrame(shap_values.array, index, Reverse(colnames)))

regression_result(shap_values, index, colnames) ==
    to_dict_records(DataFrame(shap_values.array, index, colnames))

explain(features, samples, shape) ==
    IF explain_check # "ok" THEN Raise(explain_check, {}, NoRaw)
    ELSE LET preprocessed == preprocess(features) IN
    IF ~Ok(preprocessed) THEN preprocessed
    ELSE LET background == IF samples = None THEN Return(None, {}, NoRaw)
                           ELSE explain_background(samples)
             reach == preprocessed.reached \cup background.reached
         IN
    IF ~Ok(background) THEN Raise(background.status, reach, NoRaw)
    ELSE LET params == explain_params(samples, background.value)
             predictor == _get_predictor.value
             colnames == _feature_names
             input_data == SelectColumns(preprocessed.value, colnames)
             shap_values == ShapValues(shape, input_data.rows)
             index == preprocessed.value.index
             out == [estimator |-> None,
                     shap |-> [predictor |-> predictor, params |-> params,
                               fed |-> IF use_pandas THEN "DataFrame" ELSE "ndarray",
                               shap_values |-> shap_values]]
             reach2 == reach \cup {"shap"}
         IN
    IF _is_classification
    THEN LET class_names == _get_class_names.value
             process == process_shap_values(shap_values)
         IN  IF process = "ValueError" THEN Raise("ExplainError", reach2, out)
             ELSE Return(classification_result(shap_values, process, class_names, index, colnames),
                         reach2, out)
    ELSE Return(regression_result(shap_values, index, colnames), reach2, out)

-----------------------------------------------------------------------------
(* The state machine *)

Idle == [op |-> "none", features |-> None, samples |-> None,
         status |-> "idle", value |-> None]

Called(op, features, samples, res) ==
    [op |-> op, features |-> features, samples |-> samples,
     status |-> res.status, value |-> res.value]

Init ==
    /\ ready = FALSE
    /\ _model = NoModel
    /\ metadata = NoMetadata
    /\ nest = None
    /\ call = Idle
    /\ reached = {}
    /\ raw = NoRaw

(* _load: the external loader hands over the fitted estimator and its       *)
(* metadata, and the base class marks the model ready.  An estimator that   *)
(* is not wrapped may offer a transform of its own.                         *)
_load ==
    /\ ~ready
    /\ call.op = "none"
    /\ \E a \in Artifacts, t \in BOOLEAN :
          /\ Loadable(a)
          /\ t => a.layers = <<>>
          /\ LET plain == IF t THEN WithTransform(a.plain) ELSE a.plain IN
             /\ _model' = Build(a.layers, plain)
             /\ nest' = [layers |-> a.layers, plain |-> plain]
             /\ metadata' = [features |-> Schema,
                             task |-> IF a.plain \in PlainClassifiers
                                      THEN "classification" ELSE "regression"]
    /\ ready' = TRUE
    /\ call' = [op |-> "load", features |-> None, samples |-> None,
                status |-> "ok", value |-> None]
    /\ reached' = {}
    /\ raw' = NoRaw

(* An operation that keeps the unwrapped predictor in place of the model. *)
FinishCaching(op, features, samples, res) ==
    /\ call' = Called(op, features, samples, res)
    /\ reached' = res.reached
    /\ raw' = res.raw
    /\ _model' = IF ready THEN _extract_base_predictor(_model) ELSE _model
    /\ UNCHANGED <<ready, metadata, nest>>

(* An operation ends: its outcome goes to the caller, and nothing of the    *)
(* model object is assigned.                                                *)
Finish(op, features, samples, res) ==
    /\ call' = Called(op, features, samples, res)
    /\ reached' = res.reached
    /\ raw' = res.raw
    /\ UNCHANGED <<ready, _model, metadata, nest>>

GetPredictor ==
    /\ call.op = "none"
    /\ Finish("_get_predictor", None, None, _get_predictor)

GetClassNames ==
    /\ call.op = "none"
    /\ Finish("_get_class_names", None, None, _get_class_names)

Preprocess ==
    /\ call.op = "none"
    /\ \E features \in Requests : Finish("preprocess", features, None, preprocess(features))

Predict ==
    /\ call.op = "none"
    /\ \E features \in Requests : Finish("predict", features, None, predict(features))

PredictProba ==
    /\ call.op = "none"
    /\ \E features \in Requests :
          Finish("predict_proba", features, None, predict_proba(features))

Explain ==
    /\ call.op = "none"
    /\ \E features \in Requests, samples \in Backgrounds, shape \in Shapes :
          Finish("explain", features, samples, explain(features, samples, shape))

(* The caller repeats the call it has just made, with the same arguments    *)
(* and the same behaviour of the explainer.                                 *)
Repeat ==
    \/ /\ call.op = "preprocess"
       /\ Finish("preprocess", call.features, None, preprocess(call.features))
    \/ /\ call.op = "predict"
       /\ Finish("predict", call.features, None, predict(call.features))
    \/ /\ call.op = "predict_proba"
       /\ Finish("predict_proba", call.features, None, predict_proba(call.features))
    \/ /\ call.op = "explain"
       /\ \E shape \in Shapes :
             /\ raw.shap # None => shape = raw.shap.shap_values.kind
             /\ Finish("explain", call.features, call.samples,
                       explain(call.features, call.samples, shape))

(* The caller takes the outcome; the next call can begin. *)
Respond ==
    /\ call.op # "none"
    /\ call' = Idle
    /\ reached' = {}
    /\ raw' = NoRaw
    /\ UNCHANGED <<ready, _model, metadata, nest>>

Next ==
    \/ _load
    \/ GetPredictor
    \/ GetClassNames
    \/ Preprocess
    \/ Predict
    \/ PredictProba
    \/ Explain
    \/ Repeat
    \/ Respond

Spec == Init /\ [][Next]_vars

-----------------------------------------------------------------------------
(* Properties *)

PublicOps == {"preprocess", "predict", "predict_proba", "explain"}

(* The number of records of the request of the last call. *)
NumRecords == IF call.features.kind = "dict" THEN 1 ELSE Len(call.features.value)

SchemaNames == <<"age", "color">>

(* The family named by the contract of explain: decision trees, forests and *)
(* the XGBoost, CatBoost and LightGBM gradient-boosting models.             *)
ExplainableFamily ==
    { "DecisionTreeClassifier", "DecisionTreeRegressor",
      "RandomForestClassifier", "RandomForestRegressor",
      "XGBClassifier", "XGBRegressor", "Booster",
      "CatBoostClassifier", "CatBoostRegressor",
      "LGBMClassifier", "LGBMRegressor" }

(* C1: preprocess, predict, predict_proba and explain called while no model *)
(* is loaded fail with the not-ready error, return nothing, and reach       *)
(* neither validation, nor the estimator, nor the attribution capability.   *)
C1_NotReady ==
    (~ready /\ call.op \in PublicOps) =>
        /\ call.status = "NotReadyError"
        /\ call.value = None
        /\ reached = {}
        /\ raw = NoRaw

C1_Witness ==
    /\ ~ready
    /\ call.op = "predict"
    /\ call.features = List(<<RecA, RecB>>)
    /\ call.status = "NotReadyError"

(* C2: on a regression model predict_proba and _get_class_names fail with   *)
(* the unsupported-task error for any records, without reaching the         *)
(* estimator and without a result; on a classification model the task gate  *)
(* never rejects them.                                                      *)
C2_TaskGate ==
    (ready /\ call.op \in {"predict_proba", "_get_class_names"}) =>
        IF metadata.task = "regression"
        THEN /\ call.status = "UnsupportedTaskError"
             /\ call.value = None
             /\ reached = {}
             /\ raw = NoRaw
        ELSE call.status # "UnsupportedTaskError"

C2_Witness ==
    /\ ready
    /\ metadata.task = "regression"
    /\ call.op = "predict_proba"
    /\ call.features = Dict(RecA)
    /\ call.status = "UnsupportedTaskError"

(* C3: explain succeeds only on a model whose base predictor is of the      *)
(* explainable family; on any other loaded model it fails with the          *)
(* unsupported-model error for any records and background, and the          *)
(* attribution capability is not invoked.                                   *)
C3_ExplainableGate ==
    (ready /\ call.op = "explain") =>
        /\ call.status = "ok" => type_name(nest.plain) \in ExplainableFamily
        /\ type_name(nest.plain) \notin ExplainableFamily =>
              /\ call.status = "UnsupportedModelError"
              /\ call.value = None
              /\ "shap" \notin reached
              /\ raw.shap = None

C3_Witness ==
    /\ ready
    /\ call.op = "explain"
    /\ type_name(nest.plain) = "LogisticRegression"
    /\ nest.layers = <<"Pipeline", "CalibratedClassifierCV">>
    /\ call.features = Dict(RecA)
    /\ call.samples = List(<<RecB>>)
    /\ call.status = "UnsupportedModelError"

(* C4: on an estimator of N nested pipeline or calibration layers around a  *)
(* plain estimator, _extract_base_predictor makes N recursive calls and     *)
(* returns that plain estimator, which is neither a pipeline nor a          *)
(* calibration wrapper and which it returns unchanged when applied again.   *)
C4_Unwrap ==
    (ready /\ call.op = "_get_predictor") =>
        /\ call.status = "ok"
        /\ call.value = nest.plain
        /\ Len(ExtractCalls(_model)) = Len(nest.layers) + 1
        /\ type_name(call.value) \notin {"Pipeline"} \cup CalibratedNames
        /\ _extract_base_predictor(call.value) = call.value
        /\ _extract_base_predictor(nest.plain) = nest.plain

C4_Witness ==
    /\ ready
    /\ call.op = "_get_predictor"
    /\ call.status = "ok"
    /\ Len(nest.layers) = MaxDepth
    /\ nest.layers[1] = "Pipeline"
    /\ nest.layers[MaxDepth] = "CalibratedClassifierCV"
    /\ call.value = nest.plain

(* The per-record mappings of a result: as many as records, each with the   *)
(* schema's feature names as keys in schema order, the value of the f-th    *)
(* feature of the r-th record being array[r][f].                            *)
RecordMappings(mappings, array) ==
    /\ Len(mappings) = NumRecords
    /\ Len(array) = NumRecords
    /\ \A r \in 1..NumRecords :
          /\ Keys(mappings[r]) = SchemaNames
          /\ \A f \in 1..Len(SchemaNames) : mappings[r][f][2] = array[r][f]

ExplainedWith(kind) ==
    /\ ready
    /\ call.op = "explain"
    /\ call.status = "ok"
    /\ raw.shap.shap_values.kind = kind

(* C5: when the explainer of a binary classifier returns a single shared    *)
(* array, the result has both classes as keys, the first and second class   *)
(* label of the base predictor, and for every record and feature the        *)
(* attribution of the first class is the negation of that of the second.    *)
C5_BinaryNegation ==
    (ExplainedWith("ndarray") /\ metadata.task = "classification") =>
        /\ Len(nest.plain.classes_) = 2
        /\ Keys(call.value) = <<ToString(nest.plain.classes_[1]), ToString(nest.plain.classes_[2])>>
        /\ Len(call.value[1][2]) = NumRecords
        /\ Len(call.value[2][2]) = NumRecords
        /\ \A r \in 1..NumRecords : \A f \in 1..Len(SchemaNames) :
              /\ call.value[1][2][r][f][1] = call.value[2][2][r][f][1]
              /\ call.value[1][2][r][f][2] = - call.value[2][2][r][f][2]

C5_Witness ==
    /\ ExplainedWith("ndarray")
    /\ metadata.task = "classification"
    /\ call.features = List(<<RecA, RecB>>)
    /\ call.samples = None
    /\ call.value[1][2][1][2][2] = -2
    /\ call.value[2][2][1][2][2] = 2

C7_ResultShape ==
    (ready /\ call.op = "explain" /\ call.status = "ok") =>
        IF metadata.task = "regression"
        THEN RecordMappings(call.value, raw.shap.shap_values.array)
        ELSE /\ Keys(call.value) = StrArray(nest.plain.classes_)
             /\ \A c \in 1..Len(call.value) :
                   RecordMappings(call.value[c][2],
                                  IF raw.shap.shap_values.kind = "list"
                                  THEN raw.shap.shap_values.arrays[c]
                                  ELSE Times(raw.shap.shap_values.array, IF c = 1 THEN -1 ELSE 1))

C7_Witness ==
    /\ ready
    /\ call.op = "explain"
    /\ call.status = "ok"
    /\ metadata.task = "regression"
    /\ call.features = Dict(RecB)
    /\ Len(call.value) = 1
    /\ call.value[1] = << <<"age", 1>>, <<"color", 0>> >>

(* C8: predict_proba on a batch of N valid records of a classifier returns  *)
(* N mappings in record order, each keyed by the class labels of the        *)
(* resolved base predictor in their order, the k-th label holding the k-th  *)
(* column of the estimator's probability output.                            *)
C8_ProbaMapping ==
    (ready /\ call.op = "predict_proba" /\ call.status = "ok") =>
        /\ Len(call.value) = NumRecords
        /\ Len(raw.estimator) = NumRecords
        /\ \A r \in 1..NumRecords :
              /\ Keys(call.value[r]) = StrArray(nest.plain.classes_)
              /\ \A k \in 1..Len(nest.plain.classes_) :
                    call.value[r][k] = <<ToString(nest.plain.classes_[k]), raw.estimator[r][k]>>

C8_Witness ==
    /\ ready
    /\ call.op = "predict_proba"
    /\ call.status = "ok"
    /\ call.features = List(<<RecB, RecA>>)
    /\ Len(nest.plain.classes_) = 3
    /\ nest.layers # <<>>
    /\ Keys(call.value[2]) = <<"0", "1", "2">>

(* C9: explain chooses the parameters of the attribution capability by the  *)
(* presence of a background alone: without one the raw (margin) output and  *)
(* the tree-path-dependent policy and no data, with one the probability     *)
(* output, the independent policy and the background preprocessed as the    *)
(* records are.                                                             *)
C9_Params ==
    (ready /\ call.op = "explain" /\ raw.shap # None) =>
        IF call.samples = None
        THEN raw.shap.params =
                [feature_dependence |-> "tree_path_dependent", model_output |-> "margin"]
        ELSE /\ DOMAIN raw.shap.params = {"data", "feature_dependence", "model_output"}
             /\ raw.shap.params.feature_dependence = "independent"
             /\ raw.shap.params.model_output = "probability"
             /\ Ok(preprocess(call.samples))
             /\ raw.shap.params.data = preprocess(call.samples).value

C9_Witness ==
    /\ ready
    /\ call.op = "explain"
    /\ raw.shap # None
    /\ call.samples = List(<<RecB>>)
    /\ HasAttr(_model, "transform")
    /\ raw.shap.params.model_output = "probability"
    /\ raw.shap.params.data.rows = << <<4, 2>> >>

(* C10: every operation, whether it succeeds or fails, leaves the loaded    *)
(* artifact as it is (estimator, schema, task, readiness), and a call       *)
(* repeated with the same arguments has the same outcome.                   *)
C10_Frame ==
    [][call'.op # "load" =>
          /\ UNCHANGED <<ready, _model, metadata>>
          /\ (call.op \in PublicOps /\ call'.op = call.op) =>
                /\ call'.status = call.status
                /\ call'.value = call.value]_vars

C10_Witness ==
    /\ ready
    /\ call.op = "preprocess"
    /\ call.status = "ValidationError"
    /\ nest.layers = <<"Pipeline">>
    /\ _model = Build(nest.layers, nest.plain)
    /\ metadata.features = Schema

====
